---- MODULE Spec2Model ----
(***************************************************************************)
(* Note processing pipeline of NoteGen (backend/app/api/process.py with    *)
(* the stage functions of backend/app/services/ai_service.py and           *)
(* ocr_service.py).                                                        *)
(*                                                                         *)
(* One job (a row of the notes table) is shared by several invocations.    *)
(* An invocation is the upload-scheduled background run of                 *)
(* process_note_pipeline or one of the HTTP handlers process_note,         *)
(* reprocess_note and confirm_note_type.  A step of an invocation is the   *)
(* code between two calls to an external provider (OCR, language model):   *)
(* those calls are the only places where an invocation is suspended, and   *)
(* every db.commit() of the code lies inside one step.  A commit stores    *)
(* the columns the code assigned since the previous commit and no others.  *)
(***************************************************************************)
EXTENDS Integers, Sequences, FiniteSets, TLC

(* ------------------------------ bounds --------------------------------- *)

\* number of HTTP requests that can be in flight on the job at one time
NumClients == 1

\* number of words the OCR provider returns for the images of one job
MaxWords == 3

\* number of images of one job
MaxImages == 2

\* slot 0 is the background run scheduled by upload_images, the other slots
\* serve the HTTP requests
Tasks == 0 .. NumClients

(* ------------------------------ values --------------------------------- *)

\* Python None of a nullable text column
None == "None"

\* ProcessStatus members used by process.py
Statuses ==
  {"uploading", "ocr_processing", "ai_organizing", "confirmation_needed",
   "completed", "failed"}

\* OrganizeMethod members used by upload.py, process.py and ai_service.py
OrganizeMethods == {"basic_summary", "cornell", "error_note", "vocab"}

\* Subject enum: the values the classification prompt allows
Subjects == {"math", "english", "korean", "history", "social", "science", "other"}

\* NoteType enum: the values the classification prompt allows
NoteTypes == {"general", "error_note", "vocab"}

\* UserPlan of the note's owner, as far as continue_processing and
\* reprocess_note tell the plans apart (user.plan == UserPlan.PRO)
UserPlans == {"free", "pro"}

\* the methods a job is uploaded with in this model: process.py only compares
\* the method with ERROR_NOTE
UploadMethods == {"basic_summary", "error_note"}

\* a key that is missing from a parsed JSON object
Absent == "<absent>"

\* a slip of the emptiness test: the strip() is forgotten
IsBlankWithoutStrip(s) == s \in {None, ""}

\* `not s or not s.strip()` for the texts of the model
IsBlank(s) == s \in {None, "", " "}

\* `not s`
Falsy(s) == s \in {None, ""}

\* str.strip() on the texts of the model
Strip(s) == IF s = " " THEN "" ELSE s

\* dict.get(key, default)
Get(v, default) == IF v = Absent THEN default ELSE v

(* --------------------------- provider outcomes ------------------------- *)

\* what ocr_service.extract_text_from_images can hand back: the joined text
\* of the images ("" when no image yields text) or an exception
OcrResults ==
  {[ok |-> TRUE, text |-> x] : x \in {"", " ", "t1"}} \cup {[ok |-> FALSE, text |-> ""]}

\* completion of the refinement call (_step0_refine_ocr)
RefineResponses ==
  {[ok |-> TRUE, content |-> "r1"], [ok |-> TRUE, content |-> " "],
   [ok |-> TRUE, content |-> ""], [ok |-> FALSE, content |-> ""]}

\* completion of the classification call (_step1_analyze_structure):
\* content is the raw text; kind "json" is a text that json.loads accepts as
\* an object with the given keys, kind "text" a text that json.loads rejects,
\* kind "scalar" a text that json.loads accepts as something else than an
\* object (null, a number, a string, a list)
ClassifyResponse(ok, kind, finish, content, subject, note_type, structure, unit) ==
  [ok |-> ok, kind |-> kind, finish |-> finish, content |-> content,
   subject |-> subject, note_type |-> note_type, structure |-> structure,
   unit |-> unit]

ClassifyResponses ==
  { ClassifyResponse(TRUE, "json", "stop", "j1", "math", "error_note", "s1", "u1"),
    ClassifyResponse(TRUE, "json", "stop", "j2", "physics", Absent, Absent, Absent),
    ClassifyResponse(TRUE, "text", "stop", "raw", Absent, Absent, Absent, Absent),
    ClassifyResponse(TRUE, "scalar", "stop", "null", Absent, Absent, Absent, Absent),
    ClassifyResponse(TRUE, "empty", "stop", "", Absent, Absent, Absent, Absent),
    ClassifyResponse(TRUE, "empty", "length", "", Absent, Absent, Absent, Absent),
    ClassifyResponse(FALSE, "empty", "stop", "", Absent, Absent, Absent, Absent) }

\* completion of the content generation call (_step2_organize_with_structure)
GenResponses ==
  { [ok |-> TRUE, content |-> "c1", finish |-> "stop"],
    [ok |-> TRUE, content |-> "c_part", finish |-> "length"],
    [ok |-> TRUE, content |-> "", finish |-> "length"],
    [ok |-> TRUE, content |-> " ", finish |-> "stop"],
    [ok |-> TRUE, content |-> None, finish |-> "stop"],
    [ok |-> FALSE, content |-> "", finish |-> "stop"] }

(* ------------------------------ messages ------------------------------- *)

\* error_message is a text column; of the text of str(e) the model keeps the
\* kind of exception it came from: "E_NoText" (no text in the images),
\* "E_Ocr" (the OCR provider raised), "E_Ai" (a language-model stage raised)
NoError == None

\* str(e) for the exception kinds of the stage functions
StrOf(err) == IF err \in {"E_NoText", "E_Ocr"} THEN err ELSE "E_Ai"

\* organize_note re-raises as Exception("AI ... : " + str(e)): still the
\* message of a language-model stage
OrganizeWrap(err) == "E_Ai"

(* --------------------------- stage functions --------------------------- *)

\* a slip of _step0_refine_ocr: the completion is returned as it is
Step0WithoutFallback(ocr_text, resp) ==
  IF ~resp.ok THEN [raised |-> TRUE, err |-> "E_Llm", text |-> ""]
  ELSE [raised |-> FALSE, err |-> "", text |-> Strip(resp.content)]

\* _step0_refine_ocr: an empty completion falls back to the OCR text
Step0RefineOcr(ocr_text, resp) ==
  IF ~resp.ok THEN [raised |-> TRUE, err |-> "E_Llm", text |-> ""]
  ELSE IF IsBlank(resp.content)
       THEN [raised |-> FALSE, err |-> "", text |-> ocr_text]
       ELSE [raised |-> FALSE, err |-> "", text |-> Strip(resp.content)]

\* the dict _step1_analyze_structure returns
Analysis(raised, err, subject, note_type, structure, unit) ==
  [raised |-> raised, err |-> err, subject |-> subject, note_type |-> note_type,
   structure |-> structure, unit |-> unit]

\* _step1_analyze_structure after the completion came back: only
\* json.JSONDecodeError is caught, so parsed.get on a parsed value that is
\* not a dict raises AttributeError out of the stage
Step1AnalyzeStructure(resp) ==
  IF ~resp.ok THEN Analysis(TRUE, "E_Llm", Absent, Absent, Absent, Absent)
  ELSE IF IsBlank(resp.content)
       THEN IF resp.finish = "length"
            THEN Analysis(TRUE, "E_Step1Length", Absent, Absent, Absent, Absent)
            ELSE Analysis(FALSE, "", "other", "general", "", "")
       ELSE IF resp.kind = "json"
            THEN Analysis(FALSE, "", resp.subject, resp.note_type, resp.structure, resp.unit)
            ELSE IF resp.kind = "scalar"
            THEN Analysis(TRUE, "E_NotADict", Absent, Absent, Absent, Absent)
            ELSE Analysis(FALSE, "", "other", "general", resp.content, "")

\* the detection result: the dict detect_note_type_only returns, the
\* parameters of continue_processing and the content of the checkpoint
Detection(refined, structure, subject, note_type, unit) ==
  [refined_text |-> refined, structure |-> structure,
   detected_subject |-> subject, detected_note_type |-> note_type,
   detected_unit |-> unit]

NoDetection == Detection("", "", "", "", "")

\* detect_note_type_only (also steps 0 and 1 of organize_note): refinement,
\* then classification on the refined text
DetectNoteTypeOnly(ocr_text, refine, classify) ==
  LET r0 == Step0RefineOcr(ocr_text, refine)
      a == Step1AnalyzeStructure(classify)
  IN  IF IsBlank(ocr_text)
      THEN [raised |-> TRUE, err |-> "E_EmptyText", classified |-> FALSE, det |-> NoDetection]
      ELSE IF r0.raised
      THEN [raised |-> TRUE, err |-> r0.err, classified |-> FALSE, det |-> NoDetection]
      ELSE IF a.raised
      THEN [raised |-> TRUE, err |-> a.err, classified |-> TRUE, det |-> NoDetection]
      ELSE [raised |-> FALSE, err |-> "", classified |-> TRUE,
            det |-> Detection(r0.text, Get(a.structure, ""), Get(a.subject, "other"),
                              Get(a.note_type, "general"), Get(a.unit, ""))]

\* _extract_cornell_json: a fenced JSON object with the four cornell keys is
\* replaced by its re-serialized form, any other text is returned as it is
ExtractCornellJson(result) ==
  IF result = "fenced_cornell_json" THEN "cornell_json" ELSE result

\* a slip of _step2_organize_with_structure: the empty-result check is
\* missing
Step2WithoutEmptyCheck(resp, method) ==
  IF ~resp.ok THEN [raised |-> TRUE, err |-> "E_Llm", content |-> ""]
  ELSE [raised |-> FALSE, err |-> "",
        content |-> IF resp.content = None THEN None ELSE Strip(resp.content)]

\* _step2_organize_with_structure after the completion came back
Step2OrganizeWithStructure(resp, method) ==
  IF ~resp.ok THEN [raised |-> TRUE, err |-> "E_Llm", content |-> ""]
  ELSE IF IsBlank(resp.content)
       THEN IF resp.finish = "length"
            THEN [raised |-> TRUE, err |-> "E_TokenLimit", content |-> ""]
            ELSE [raised |-> TRUE, err |-> "E_EmptyResponse", content |-> ""]
       ELSE [raised |-> FALSE, err |-> "",
             content |-> IF method = "cornell"
                         THEN ExtractCornellJson(Strip(resp.content))
                         ELSE Strip(resp.content)]

\* the prompt templates _get_prompt_for_note_type asks for
PromptNames == {"math_error_note", "general_error_note", "english_vocab"}

\* the prompt files that exist: every template resolves
PromptStore == PromptNames

\* _load_prompt: the template text, or None when there is no such file
LoadPrompt(prompt_name, store) == IF prompt_name \in store THEN prompt_name ELSE None

\* the detection-based part of _get_prompt_for_note_type (its step 3)
PromptByDetection(detected_subject, detected_note_type, store) ==
  IF /\ detected_note_type = "error_note" /\ detected_subject = "math"
     /\ LoadPrompt("math_error_note", store) # None
  THEN LoadPrompt("math_error_note", store)
  ELSE IF /\ detected_note_type = "vocab" /\ detected_subject = "english"
          /\ LoadPrompt("english_vocab", store) # None
  THEN LoadPrompt("english_vocab", store)
  ELSE IF /\ detected_note_type = "error_note"
          /\ LoadPrompt("general_error_note", store) # None
  THEN LoadPrompt("general_error_note", store)
  ELSE None

\* _get_prompt_for_note_type: ERROR_NOTE and VOCAB pick their template
\* first; otherwise, and when a template does not load, the detection picks
GetPromptForNoteType(detected_subject, detected_note_type, method, store) ==
  IF /\ method = "error_note" /\ detected_subject = "math"
     /\ LoadPrompt("math_error_note", store) # None
  THEN LoadPrompt("math_error_note", store)
  ELSE IF method = "error_note" /\ LoadPrompt("general_error_note", store) # None
  THEN LoadPrompt("general_error_note", store)
  ELSE IF method = "vocab" /\ LoadPrompt("english_vocab", store) # None
  THEN LoadPrompt("english_vocab", store)
  ELSE PromptByDetection(detected_subject, detected_note_type, store)

\* the prompt _step2_organize_with_structure builds: the type template, or
\* the default prompt with the format instruction of the method
Strategy(detected_subject, detected_note_type, method, store) ==
  LET type_prompt ==
        GetPromptForNoteType(detected_subject, detected_note_type, method, store)
  IN  IF type_prompt # None THEN type_prompt
      ELSE IF method = "basic_summary" THEN "default_basic_summary"
      ELSE IF method = "cornell" THEN "default_cornell"
      ELSE "default_bullets"

\* Subject(detected_subject_str) with ValueError -> Subject.OTHER
ToSubject(s) == IF s \in Subjects THEN s ELSE "other"

\* NoteType(detected_note_type_str) with ValueError -> NoteType.GENERAL
ToNoteType(s) == IF s \in NoteTypes THEN s ELSE "general"

\* a slip of the cache dict: note type and unit are stored under each
\* other's key
SerializeCacheSwapped(det, curriculum_context) ==
  << det.refined_text, det.structure, curriculum_context,
     det.detected_subject, det.detected_unit, det.detected_note_type >>

\* json.dumps(cache_data): the six keys in the order the dict is built
SerializeCache(det, curriculum_context) ==
  << det.refined_text, det.structure, curriculum_context,
     det.detected_subject, det.detected_note_type, det.detected_unit >>

\* a slip of the cache reads: the refined text is passed as the structure
\* and the structure as the refined text
DeserializeCacheSwapped(blob) ==
  Detection(blob[2], blob[1], blob[4], blob[5], blob[6])

\* json.loads(note.detection_cache) and the six cache_data[...] reads
DeserializeCache(blob) ==
  Detection(blob[1], blob[2], blob[4], blob[5], blob[6])

\* a stored detection_cache text that json.loads rejects (the column is a
\* text column that the pipeline only ever fills with json.dumps output)
MalformedCache == << "not json" >>

\* json.loads(note.detection_cache) returns
Parses(blob) == blob # MalformedCache

\* get_curriculum_context(school_level, grade) or "": no school level is
\* modelled, the context is empty
CurriculumContext == ""

(* -------------------------- spatial clustering ------------------------- *)
(* ocr_service.py: the words of one image are merged into lines and the    *)
(* lines into blocks.  Coordinates are integer pixels.  A text is a        *)
(* sequence of characters; the text of the k-th word of a job is the one   *)
(* character WordTexts[k], so that every word can be told from the others. *)
(* The confidence averages take no part in the grouping, the geometry or   *)
(* the texts and are left out.                                             *)

\* x_diff < 100: the largest indentation difference inside a block, exclusive
IndentLimit == 100

\* the side of the normalized page
PageSize == 1000

WordTexts == << "a", "b", "c", "d", "e" >>

\* image sizes of convertedImageInfo: a small image and one of the size of
\* the normalized page
ImageSizes == { << 200, 60 >>, << PageSize, PageSize >> }

\* left edges, top edges and heights of the words the provider returns; every
\* word is 100 pixels wide
WordXs == {0, 100}
WordYs == {0, 8, 30, 40}
WordHs == {10, 20}
WordW == 100

\* one entry of ocr_words: cy = y + h // 2
Word(text, x, y, w, h) ==
  [text |-> text, x |-> x, y |-> y, w |-> w, h |-> h, cy |-> y + (h \div 2)]

\* the bounding boxes that lie inside an image of the given size
WordBoxes(size) ==
  { b \in WordXs \X WordYs \X WordHs :
      b[1] + WordW <= size[1] /\ b[2] + b[3] <= size[2] }

\* the word lists of n words the provider can return for an image of the
\* given size, the job having delivered `used` words before
WordLists(n, size, used) ==
  { [i \in 1 .. n |-> Word(<< WordTexts[used + i] >>, f[i][1], f[i][2], WordW, f[i][3])] :
      f \in [1 .. n -> WordBoxes(size)] }

Abs(a) == IF a < 0 THEN 0 - a ELSE a

Min(S) == CHOOSE a \in S : \A b \in S : a <= b

Max(S) == CHOOSE a \in S : \A b \in S : a >= b

RECURSIVE SumOf(_)
\* sum(...) over a list of numbers
SumOf(numbers) ==
  IF numbers = << >> THEN 0 ELSE Head(numbers) + SumOf(Tail(numbers))

\* sum(e["h"] for e in entries)
SumOfHeights(entries) == SumOf([i \in 1 .. Len(entries) |-> entries[i].h])

RECURSIVE Join(_, _)
\* sep.join(texts)
Join(texts, sep) ==
  IF texts = << >> THEN << >>
  ELSE IF Len(texts) = 1 THEN texts[1]
  ELSE texts[1] \o << sep >> \o Join(Tail(texts), sep)

\* key=lambda w: (w["cy"], w["x"])
LessCyX(a, b) == a.cy < b.cy \/ (a.cy = b.cy /\ a.x < b.x)

\* key=lambda w: w["x"]
LessX(a, b) == a.x < b.x

\* key=lambda l: l["y"]
LessY(a, b) == a.y < b.y

\* sorted(entries, key=...): a stable sort; less holds the pairs << i, j >>
\* of positions with key(entries[i]) < key(entries[j])
StableSort(entries, less) ==
  LET n == Len(entries)
      before(i) == { j \in 1 .. n :
                       \/ << j, i >> \in less
                       \/ << i, j >> \notin less /\ j < i }
  IN  [k \in 1 .. n |-> entries[CHOOSE i \in 1 .. n : Cardinality(before(i)) = k - 1]]

\* sorted(words, key=lambda w: (w["cy"], w["x"]))
SortByCyX(words) ==
  StableSort(words, { p \in (1 .. Len(words)) \X (1 .. Len(words)) :
                        LessCyX(words[p[1]], words[p[2]]) })

\* sorted(words, key=lambda w: w["x"])
SortByX(words) ==
  StableSort(words, { p \in (1 .. Len(words)) \X (1 .. Len(words)) :
                        LessX(words[p[1]], words[p[2]]) })

\* sorted(lines, key=lambda l: l["y"])
SortByY(lines) ==
  StableSort(lines, { p \in (1 .. Len(lines)) \X (1 .. Len(lines)) :
                        LessY(lines[p[1]], lines[p[2]]) })

\* a slip of the same-line test: the boundary is let through
SameLineInclusive(word, current_line) ==
  LET last_word == current_line[Len(current_line)]
  IN  10 * Abs(word.cy - last_word.cy) * Len(current_line)
        <= 8 * SumOfHeights(current_line)

\* abs(word["cy"] - last_word["cy"]) < avg_height * 0.8, with avg_height the
\* sum of the heights over the length of the current line
SameLine(word, current_line) ==
  LET last_word == current_line[Len(current_line)]
  IN  10 * Abs(word.cy - last_word.cy) * Len(current_line)
        < 8 * SumOfHeights(current_line)

\* a slip of the same-block test: the indentation is not looked at
SameBlockWithoutIndent(line, current_block) ==
  LET last_line == current_block[Len(current_block)]
      line_gap == line.y - (last_line.y + last_line.h)
  IN  line_gap * Len(current_block) < 2 * SumOfHeights(current_block)

\* line_gap < avg_height * 2.0 and x_diff < 100
SameBlock(line, current_block) ==
  LET last_line == current_block[Len(current_block)]
      line_gap == line.y - (last_line.y + last_line.h)
      x_diff == Abs(line.x - last_line.x)
  IN  /\ line_gap * Len(current_block) < 2 * SumOfHeights(current_block)
      /\ x_diff < IndentLimit

\* the dict of a line built from the given words in the given order
LineOf(sorted_words) ==
  LET idx == 1 .. Len(sorted_words)
      min_x == Min({ sorted_words[i].x : i \in idx })
      min_y == Min({ sorted_words[i].y : i \in idx })
      max_x == Max({ sorted_words[i].x + sorted_words[i].w : i \in idx })
      max_y == Max({ sorted_words[i].y + sorted_words[i].h : i \in idx })
  IN  [text |-> Join([i \in idx |-> sorted_words[i].text], " "),
       x |-> min_x, y |-> min_y, w |-> max_x - min_x, h |-> max_y - min_y,
       cy |-> (min_y + max_y) \div 2,
       word_count |-> Len(sorted_words)]

\* a slip of _create_line_from_words: the words are not sorted by x
CreateLineUnsorted(words) == LineOf(words)

\* _create_line_from_words
CreateLineFromWords(words) == LineOf(SortByX(words))

\* a slip of the normalization: the quotient is rounded up
NormalizeRoundingUp(value, dimension) ==
  (value * PageSize + dimension - 1) \div dimension

\* int(value * 1000 / image_dimension) for a value that is not negative
Normalize(value, dimension) == (value * PageSize) \div dimension

\* _create_block_from_lines
CreateBlockFromLines(lines, block_idx, image_width, image_height) ==
  LET idx == 1 .. Len(lines)
      min_x == Min({ lines[i].x : i \in idx })
      min_y == Min({ lines[i].y : i \in idx })
      max_x == Max({ lines[i].x + lines[i].w : i \in idx })
      max_y == Max({ lines[i].y + lines[i].h : i \in idx })
  IN  [id |-> << "b", block_idx >>,
       bbox |-> << Normalize(min_x, image_width), Normalize(min_y, image_height),
                   Normalize(max_x - min_x, image_width),
                   Normalize(max_y - min_y, image_height) >>,
       text |-> Join([i \in idx |-> lines[i].text], "\n"),
       line_count |-> Len(lines)]

\* a slip of the end of _merge_words_to_lines: the last line is not added
LinesWithoutLast(lines, current_line) == lines

\* the end of _merge_words_to_lines: the last line is added
LinesWithLast(lines, current_line) ==
  IF current_line # << >> THEN Append(lines, CreateLineFromWords(current_line))
  ELSE lines

RECURSIVE Concat(_)
\* blocks.extend(...) over the images
Concat(lists) == IF lists = << >> THEN << >> ELSE Head(lists) \o Concat(Tail(lists))

\* _get_blocks_for_llm: the blocks of all images, one after the other
GetBlocksForLlm(images) == Concat(images)

\* a block taken as one word that spans its bounding box
BlockAsWord(block) ==
  Word(block.text, block.bbox[1], block.bbox[2], block.bbox[3], block.bbox[4])

\* the state of the OCR service for one job: pc is "idle" between two images,
\* "words" inside the loop of _merge_words_to_lines, "lines" inside the loop
\* of _merge_lines_to_blocks, "handed" when the blocks went to the language
\* model; run is 1 for the images of the job and 2 for the second clustering
\* of its blocks; the other fields are the locals of the code and the blocks
\* of all_metadata["images"]
Clustering(pc, run, image_size, words, sorted_words, current_line, lines, sorted_lines, current_block, blocks, images, extracted, used, before, llm) ==
  [pc |-> pc, run |-> run, image_size |-> image_size, words |-> words,
   sorted_words |-> sorted_words, current_line |-> current_line, lines |-> lines,
   sorted_lines |-> sorted_lines, current_block |-> current_block,
   blocks |-> blocks, images |-> images, extracted |-> extracted, used |-> used,
   before |-> before, llm |-> llm]

\* no image has been looked at
NoClustering ==
  Clustering("idle", 1, << PageSize, PageSize >>, << >>, << >>, << >>, << >>, << >>, << >>,
             << >>, << >>, 0, 0, << >>, << >>)

(* -------------------------------- state -------------------------------- *)

VARIABLES
  note,                \* the job: the columns of the Note row the pipeline uses
  inv,                 \* inv[t]: the invocation running in slot t
  last,                \* the return of an invocation in the step just taken, if any
  userPlan,            \* plan of the note's owner
  confirmationEnabled, \* the confirmation policy of process_note_pipeline
  clustering           \* the OCR service at work on the images of the job

vars == << note, inv, last, userPlan, confirmationEnabled, clustering >>

\* the row upload_images inserts
NewNote(method) ==
  [status |-> "uploading", organize_method |-> method, ocr_text |-> None,
   ocr_metadata |-> None, detection_cache |-> <<>>, organized_content |-> None,
   error_message |-> NoError, detected_subject |-> None,
   detected_note_type |-> None]

\* an invocation: op is the entry point, pc the provider call it waits for
\* ("ocr"; "detect": the refinement and classification calls; "generate";
\* "weak" and "cards": the extraction calls), ocr/method/det its locals
\* ocr_text, method and the detection result, strategy the prompt of the
\* generation request in flight
Invocation(op, pc, ocr, method, det) ==
  [op |-> op, pc |-> pc, ocr |-> ocr, method |-> method, det |-> det,
   strategy |-> IF pc = "generate"
                THEN Strategy(det.detected_subject, det.detected_note_type,
                              method, PromptStore)
                ELSE None]

IdleSlot == Invocation("none", "idle", None, None, NoDetection)

\* background_tasks.add_task(process_note_pipeline, note.id)
ScheduledRun == Invocation("background", "scheduled", None, None, NoDetection)

\* what the step just taken returned to a caller: the entry point, how it
\* ended ("rejected": HTTP 400 of a precondition check, "failed": the except
\* branch, "paused", "completed") and the OCR text it had in hand
Outcome(op, result, ocr) ==
  [op |-> op, result |-> result, ocr |-> ocr, extraction |-> "none",
   refine |-> "none", classify |-> "none", generate |-> "none"]

\* the step just taken did not end an invocation
NoOutcome == Outcome("none", "none", None)

\* the invocation in slot t goes on to its next provider call
Proceed == last' = NoOutcome

\* the invocation in slot t returns
Return(t, result, ocr) ==
  /\ inv' = [inv EXCEPT ![t] = IdleSlot]
  /\ last' = Outcome(inv[t].op, result, ocr)

\* what the classification call made in a step handed back: "none" if the
\* call was not made, "error" if it raised, otherwise the kind of completion
ClassifySeen(d, classify) ==
  IF ~d.classified THEN "none" ELSE IF ~classify.ok THEN "error" ELSE classify.kind

\* what the refinement call made in a step handed back: "none" if the call
\* was not made, "error" if it raised, "blank" for a completion without
\* text, "text" otherwise
RefineSeen(ocr_text, refine) ==
  IF IsBlank(ocr_text) THEN "none"
  ELSE IF ~refine.ok THEN "error"
  ELSE IF IsBlank(refine.content) THEN "blank" ELSE "text"

\* what the two detection calls of a step handed back
DetectSeen(ocr_text, d, refine, classify) ==
  [refine |-> RefineSeen(ocr_text, refine), classify |-> ClassifySeen(d, classify)]

\* no detection call was made in the step
NothingSeen == [refine |-> "none", classify |-> "none"]

\* the detection calls of slot t are over, the invocation goes on
ProceedClassified(seen) ==
  last' = [NoOutcome EXCEPT !.refine = seen.refine, !.classify = seen.classify]

\* the detection calls of slot t are over, the invocation returns
ReturnClassified(t, result, seen) ==
  /\ inv' = [inv EXCEPT ![t] = IdleSlot]
  /\ last' = [Outcome(inv[t].op, result, None) EXCEPT !.refine = seen.refine,
                                                      !.classify = seen.classify]

\* what the generation call made in a step handed back: "error" if it
\* raised, "empty" for no text (a refusal has content None), "truncated" for
\* a text cut off by the token limit, "text" otherwise
GenerateSeen(resp) ==
  IF ~resp.ok THEN "error"
  ELSE IF resp.content \in {None, "", " "} THEN "empty"
  ELSE IF resp.finish = "length" THEN "truncated" ELSE "text"

\* the generation call of slot t is over, the invocation goes on
ProceedGenerated(seen) == last' = [NoOutcome EXCEPT !.generate = seen]

\* the generation call of slot t is over, the invocation returns
ReturnGenerated(t, result, seen) ==
  /\ inv' = [inv EXCEPT ![t] = IdleSlot]
  /\ last' = [Outcome(inv[t].op, result, None) EXCEPT !.generate = seen]

\* an extraction call of slot t has ended with resp and the invocation goes
\* on to the next one
ProceedAfterExtraction(resp) == last' = [NoOutcome EXCEPT !.extraction = resp]

\* the last extraction call of slot t has ended with resp and the
\* invocation returns its response
ReturnAfterExtraction(t, resp) ==
  /\ inv' = [inv EXCEPT ![t] = IdleSlot]
  /\ last' = [Outcome(inv[t].op, "completed", None) EXCEPT !.extraction = resp]

\* the HTTP call in slot t raises HTTPException(400) before doing anything
Reject(t, op) ==
  /\ last' = Outcome(op, "rejected", None)
  /\ UNCHANGED << note, inv >>

\* the HTTP call in slot t raises outside every try block: the exception
\* leaves the handler (HTTP 500) and nothing is committed
Escape(t, op) ==
  /\ last' = Outcome(op, "error", None)
  /\ UNCHANGED << note, inv >>

InitJob ==
  /\ note \in {NewNote(m) : m \in UploadMethods}
  /\ inv = [t \in Tasks |-> IF t = 0 THEN ScheduledRun ELSE IdleSlot]
  /\ last = NoOutcome
  /\ userPlan \in UserPlans
  /\ clustering = NoClustering

\* needs_confirmation as shipped: the policy is switched off
Init == InitJob /\ confirmationEnabled = FALSE

\* the job with the confirmation policy switched on
InitConfirm == InitJob /\ confirmationEnabled = TRUE

\* the job as the OCR service finds it when the pipeline calls it; the
\* service looks at neither the method nor the plan
InitCluster == Init /\ note = NewNote("basic_summary") /\ userPlan = "free"

(* ----------------------------- preconditions --------------------------- *)

\* a slip of the status check of process_note: COMPLETED is let through
CanProcessAlsoCompleted(n) == n.status \in {"uploading", "failed", "completed"}

\* a slip of the status check of process_note: only jobs in progress are
\* turned away
CanProcessUnlessRunning(n) == n.status \notin {"ocr_processing", "ai_organizing"}

\* a per-job lock the code does not have: process_note would also turn the
\* call away while another invocation is inside a stage
CanProcessUnlessLocked(n) ==
  /\ n.status \in {"uploading", "failed"}
  /\ \A u \in Tasks : inv[u].pc \in {"idle", "scheduled"}

\* process_note: note.status in [UPLOADING, FAILED]
CanProcess(n) == n.status \in {"uploading", "failed"}

\* a slip of reprocess_note: the OCR text is not checked
CanReprocessWithoutText(n) == TRUE

\* reprocess_note: not (not note.ocr_text)
CanReprocess(n) == ~Falsy(n.ocr_text)

\* a slip of confirm_note_type: the status is not checked
CanConfirmWithoutStatus(n) == n.detection_cache # <<>>

\* confirm_note_type: CONFIRMATION_NEEDED and a detection cache
CanConfirm(n) == n.status = "confirmation_needed" /\ n.detection_cache # <<>>

\* a slip of process_note_pipeline: the commented-out policy is left in force
NeedsConfirmationInForce(detected_note_type, method) ==
  detected_note_type = "error_note" /\ method # "error_note"

\* needs_confirmation of process_note_pipeline: error_note detected while the
\* user chose another method; the shipped code fixes it to False
NeedsConfirmation(detected_note_type, method) ==
  confirmationEnabled /\ detected_note_type = "error_note" /\ method # "error_note"

(* ------------------------------ pipeline ------------------------------- *)

\* the except branch of the three entry points: FAILED with str(e)
Fail(n, message) == [n EXCEPT !.status = "failed", !.error_message = message]

\* head of process_note_pipeline: OCR_PROCESSING, then the OCR call
StartPipeline(t, op) ==
  /\ note' = [note EXCEPT !.status = "ocr_processing"]
  /\ inv' = [inv EXCEPT ![t] = Invocation(op, "ocr", None, None, NoDetection)]
  /\ Proceed

\* the background task of upload_images starts: no status check
BackgroundRun(t) ==
  /\ inv[t].pc = "scheduled"
  /\ StartPipeline(t, "background")
  /\ UNCHANGED << userPlan, confirmationEnabled, clustering >>

\* POST /{note_id}/process
ProcessNote(t) ==
  /\ t # 0
  /\ inv[t].pc = "idle"
  /\ IF CanProcess(note)
     THEN StartPipeline(t, "process")
     ELSE Reject(t, "process")
  /\ UNCHANGED << userPlan, confirmationEnabled, clustering >>

\* process_note_pipeline after the OCR call: empty text raises, otherwise
\* ocr_text and ocr_metadata are stored and the detection calls start
PipelineOcr(t) ==
  /\ inv[t].pc = "ocr"
  /\ \E r \in OcrResults :
       IF ~r.ok
       THEN /\ note' = Fail(note, StrOf("E_Ocr"))
            /\ Return(t, "failed", None)
       ELSE IF IsBlank(r.text)
       THEN /\ note' = Fail(note, StrOf("E_NoText"))
            /\ Return(t, "failed", r.text)
       ELSE /\ note' = [note EXCEPT !.ocr_text = r.text, !.ocr_metadata = "meta",
                                    !.status = "ai_organizing"]
            /\ inv' = [inv EXCEPT ![t] = [@ EXCEPT !.pc = "detect", !.ocr = r.text]]
            /\ Proceed
  /\ UNCHANGED << userPlan, confirmationEnabled, clustering >>

\* head of continue_processing: AI_ORGANIZING, then the generation call with
\* method = note.organize_method
ContinueProcessing(t, op, n, det, seen) ==
  /\ note' = [n EXCEPT !.status = "ai_organizing"]
  /\ inv' = [inv EXCEPT ![t] =
               Invocation(op, "generate", inv[t].ocr, n.organize_method, det)]
  /\ ProceedClassified(seen)

\* process_note_pipeline after detect_note_type_only: the detection is
\* stored; either the run pauses with the checkpoint or it goes on
PipelineDetect(t) ==
  /\ inv[t].pc = "detect"
  /\ inv[t].op \in {"background", "process"}
  /\ \E refine \in RefineResponses, classify \in ClassifyResponses :
       LET d == DetectNoteTypeOnly(inv[t].ocr, refine, classify)
           detected == [note EXCEPT
                          !.detected_subject = ToSubject(d.det.detected_subject),
                          !.detected_note_type = ToNoteType(d.det.detected_note_type)]
           seen == DetectSeen(inv[t].ocr, d, refine, classify)
       IN  IF d.raised
           THEN /\ note' = Fail(note, StrOf(d.err))
                /\ ReturnClassified(t, "failed", seen)
           ELSE IF NeedsConfirmation(d.det.detected_note_type, note.organize_method)
           THEN /\ note' = [detected EXCEPT
                              !.detection_cache = SerializeCache(d.det, CurriculumContext),
                              !.status = "confirmation_needed"]
                /\ ReturnClassified(t, "paused", seen)
           ELSE ContinueProcessing(t, inv[t].op, detected, d.det, seen)
  /\ UNCHANGED << userPlan, confirmationEnabled, clustering >>

\* a slip of the tail of continue_processing: the status line is missing
SaveResultKeepingStatus(n, content) ==
  [n EXCEPT !.organized_content = content, !.detection_cache = <<>>]

\* a slip of the tail of continue_processing: the content line is missing
SaveResultWithoutContent(n, content) ==
  [n EXCEPT !.status = "completed", !.detection_cache = <<>>]

\* tail of continue_processing: organized_content, COMPLETED and the cleared
\* cache go into one commit
SaveResult(n, content) ==
  [n EXCEPT !.organized_content = content, !.status = "completed",
            !.detection_cache = <<>>]

\* continue_processing after the generation call: the result is saved with
\* COMPLETED and the cache is cleared, then the extraction calls follow; an
\* exception reaches the except branch of the caller
Generate(t) ==
  /\ inv[t].pc = "generate"
  /\ inv[t].op \in {"background", "process", "confirm"}
  /\ \E resp \in GenResponses :
       LET g == Step2OrganizeWithStructure(resp, inv[t].method)
       IN  IF g.raised
           THEN /\ note' = Fail(note, StrOf(g.err))
                /\ ReturnGenerated(t, "failed", GenerateSeen(resp))
           ELSE /\ note' = SaveResult(note, g.content)
                /\ inv' = [inv EXCEPT ![t] =
                             Invocation(inv[t].op,
                               IF userPlan = "pro" /\ note.organize_method = "error_note"
                               THEN "weak" ELSE "cards",
                               None, None, NoDetection)]
                /\ ProceedGenerated(GenerateSeen(resp))
  /\ UNCHANGED << userPlan, confirmationEnabled, clustering >>

\* how an extraction block ends: the call returned and its rows were
\* committed, or an exception was raised inside the try
ExtractionResponses == {"saved", "failed"}

\* a slip of the extraction blocks: without the try/except, the exception
\* reaches the except branch of the entry point
AfterExtractionUncaught(n, resp) ==
  IF resp = "failed" THEN Fail(n, StrOf("E_Llm")) ELSE n

\* the job after an extraction block: the rows go to other tables, an
\* exception is caught and logged
AfterExtraction(n, resp) == n

\* continue_processing after extract_weak_concepts
ExtractWeak(t) ==
  /\ inv[t].pc = "weak"
  /\ inv[t].op \in {"background", "process", "confirm"}
  /\ \E resp \in ExtractionResponses :
       /\ note' = AfterExtraction(note, resp)
       /\ inv' = [inv EXCEPT ![t] = [@ EXCEPT !.pc = "cards"]]
       /\ ProceedAfterExtraction(resp)
  /\ UNCHANGED << userPlan, confirmationEnabled, clustering >>

\* continue_processing after extract_concept_cards
ExtractCards(t) ==
  /\ inv[t].pc = "cards"
  /\ \E resp \in ExtractionResponses :
       /\ note' = AfterExtraction(note, resp)
       /\ ReturnAfterExtraction(t, resp)
  /\ UNCHANGED << userPlan, confirmationEnabled, clustering >>

(* ------------------------------ reprocess ------------------------------ *)

\* POST /{note_id}/reprocess: AI_ORGANIZING, then organize_note on the
\* stored OCR text (its refinement call is the first provider call)
ReprocessNote(t) ==
  /\ t # 0
  /\ inv[t].pc = "idle"
  /\ IF ~CanReprocess(note)
     THEN Reject(t, "reprocess")
     ELSE /\ note' = [note EXCEPT !.status = "ai_organizing"]
          /\ inv' = [inv EXCEPT ![t] =
                       Invocation("reprocess", "detect", note.ocr_text,
                                  note.organize_method, NoDetection)]
          /\ Proceed
  /\ UNCHANGED << userPlan, confirmationEnabled, clustering >>

\* organize_note, steps 0 and 1; an exception is wrapped by organize_note
\* and reaches the except branch of reprocess_note
ReprocessDetect(t) ==
  /\ inv[t].pc = "detect"
  /\ inv[t].op = "reprocess"
  /\ \E refine \in RefineResponses, classify \in ClassifyResponses :
       LET d == DetectNoteTypeOnly(inv[t].ocr, refine, classify)
           seen == DetectSeen(inv[t].ocr, d, refine, classify)
       IN  IF d.raised
           THEN /\ note' = Fail(note, IF d.err = "E_EmptyText"
                                       THEN StrOf(d.err) ELSE OrganizeWrap(d.err))
                /\ ReturnClassified(t, "failed", seen)
           ELSE /\ inv' = [inv EXCEPT ![t] =
                             Invocation("reprocess", "generate", inv[t].ocr,
                                        inv[t].method, d.det)]
                /\ ProceedClassified(seen)
                /\ UNCHANGED note
  /\ UNCHANGED << userPlan, confirmationEnabled, clustering >>

\* reprocess_note after organize_note: the detection, organized_content and
\* COMPLETED go into one commit; the detection cache is not touched
SaveReprocessResult(n, det, content) ==
  [n EXCEPT !.detected_subject = ToSubject(det.detected_subject),
            !.detected_note_type = ToNoteType(det.detected_note_type),
            !.organized_content = content,
            !.status = "completed"]

\* organize_note, step 2, and the rest of reprocess_note: the result is saved
\* with COMPLETED; weak concepts are extracted for a pro user's error note
ReprocessGenerate(t) ==
  /\ inv[t].pc = "generate"
  /\ inv[t].op = "reprocess"
  /\ \E resp \in GenResponses :
       LET g == Step2OrganizeWithStructure(resp, inv[t].method)
       IN  IF g.raised
           THEN /\ note' = Fail(note, OrganizeWrap(g.err))
                /\ ReturnGenerated(t, "failed", GenerateSeen(resp))
           ELSE /\ note' = SaveReprocessResult(note, inv[t].det, g.content)
                /\ IF userPlan = "pro" /\ inv[t].det.detected_note_type = "error_note"
                   THEN /\ inv' = [inv EXCEPT ![t] =
                                     Invocation("reprocess", "weak", None, None, NoDetection)]
                        /\ ProceedGenerated(GenerateSeen(resp))
                   ELSE ReturnGenerated(t, "completed", GenerateSeen(resp))
  /\ UNCHANGED << userPlan, confirmationEnabled, clustering >>

\* reprocess_note after extract_weak_concepts
ReprocessWeak(t) ==
  /\ inv[t].pc = "weak"
  /\ inv[t].op = "reprocess"
  /\ \E resp \in ExtractionResponses :
       /\ note' = AfterExtraction(note, resp)
       /\ ReturnAfterExtraction(t, resp)
  /\ UNCHANGED << userPlan, confirmationEnabled, clustering >>

(* ----------------------------- confirm-type ---------------------------- *)

\* POST /{note_id}/confirm-type: the cache is loaded, the method is switched
\* to error_note on request, and continue_processing runs on the cached
\* detection
ConfirmNoteType(t, convert_to_error_note) ==
  /\ t # 0
  /\ inv[t].pc = "idle"
  /\ IF ~CanConfirm(note)
     THEN Reject(t, "confirm")
     ELSE IF ~Parses(note.detection_cache)
     THEN Escape(t, "confirm")
     ELSE ContinueProcessing(t, "confirm",
            [note EXCEPT !.organize_method =
                           IF convert_to_error_note THEN "error_note" ELSE @],
            DeserializeCache(note.detection_cache), NothingSeen)
  /\ UNCHANGED << userPlan, confirmationEnabled, clustering >>

(* ------------------------------- storage ------------------------------- *)

\* the stored checkpoint of a paused job is damaged outside the pipeline
\* (the row is shared with every other writer of the database)
DamageCheckpoint ==
  /\ note.status = "confirmation_needed"
  /\ note.detection_cache \notin {<<>>, MalformedCache}
  /\ note' = [note EXCEPT !.detection_cache = MalformedCache]
  /\ Proceed
  /\ UNCHANGED << inv, userPlan, confirmationEnabled, clustering >>

(* ------------------------------ OCR service ---------------------------- *)

\* the pipeline does not move while the OCR service is looked at
PipelineUnchanged == UNCHANGED << note, inv, last, userPlan, confirmationEnabled >>

\* _merge_words_to_lines up to its loop, for the words of an image
StartMerge(c, size, words) ==
  LET sorted_words == SortByCyX(words)
  IN  [c EXCEPT !.pc = "words", !.image_size = size, !.words = words,
                !.sorted_words = Tail(sorted_words),
                !.current_line = << sorted_words[1] >>,
                !.lines = << >>, !.sorted_lines = << >>, !.current_block = << >>,
                !.blocks = << >>]

\* extract_text_from_images takes the next image: _extract_with_clova_ocr
\* collects its words; without words there are no lines, no blocks and no
\* text, and the image leaves no entry in all_metadata
ExtractImage ==
  /\ clustering.pc = "idle" /\ clustering.run = 1
  /\ clustering.extracted < MaxImages
  /\ \E size \in ImageSizes, n \in 0 .. (MaxWords - clustering.used) :
       \E words \in WordLists(n, size, clustering.used) :
         LET c == [clustering EXCEPT !.extracted = @ + 1, !.used = @ + n]
         IN  clustering' = IF words = << >> THEN c ELSE StartMerge(c, size, words)
  /\ PipelineUnchanged

\* one pass of the loop of _merge_words_to_lines
MergeWord ==
  /\ clustering.pc = "words" /\ clustering.sorted_words # << >>
  /\ LET word == Head(clustering.sorted_words)
         current_line == clustering.current_line
     IN  clustering' =
           IF SameLine(word, current_line)
           THEN [clustering EXCEPT !.sorted_words = Tail(@),
                                   !.current_line = Append(@, word)]
           ELSE [clustering EXCEPT !.sorted_words = Tail(@),
                                   !.lines = Append(@, CreateLineFromWords(current_line)),
                                   !.current_line = << word >>]
  /\ PipelineUnchanged

\* the end of _merge_words_to_lines and _merge_lines_to_blocks up to its loop
LinesMerged ==
  /\ clustering.pc = "words" /\ clustering.sorted_words = << >>
  /\ LET lines == LinesWithLast(clustering.lines, clustering.current_line)
         sorted_lines == SortByY(lines)
     IN  clustering' =
           IF lines = << >>
           THEN [clustering EXCEPT !.pc = "lines", !.lines = lines,
                                   !.current_line = << >>]
           ELSE [clustering EXCEPT !.pc = "lines", !.lines = lines,
                                   !.current_line = << >>,
                                   !.sorted_lines = Tail(sorted_lines),
                                   !.current_block = << sorted_lines[1] >>]
  /\ PipelineUnchanged

\* one pass of the loop of _merge_lines_to_blocks
MergeLine ==
  /\ clustering.pc = "lines" /\ clustering.sorted_lines # << >>
  /\ LET line == Head(clustering.sorted_lines)
         current_block == clustering.current_block
         blocks == clustering.blocks
     IN  clustering' =
           IF SameBlock(line, current_block)
           THEN [clustering EXCEPT !.sorted_lines = Tail(@),
                                   !.current_block = Append(@, line)]
           ELSE [clustering EXCEPT
                   !.sorted_lines = Tail(@),
                   !.blocks = Append(@, CreateBlockFromLines(current_block, Len(blocks),
                                          clustering.image_size[1], clustering.image_size[2])),
                   !.current_block = << line >>]
  /\ PipelineUnchanged

\* the end of _merge_lines_to_blocks: the last block is added and the blocks
\* of the image go into all_metadata["images"]
BlocksMerged ==
  /\ clustering.pc = "lines" /\ clustering.sorted_lines = << >>
  /\ LET blocks ==
           IF clustering.current_block # << >>
           THEN Append(clustering.blocks,
                       CreateBlockFromLines(clustering.current_block, Len(clustering.blocks),
                         clustering.image_size[1], clustering.image_size[2]))
           ELSE clustering.blocks
     IN  clustering' =
           [clustering EXCEPT !.pc = "idle", !.words = << >>, !.lines = << >>,
                              !.current_block = << >>, !.blocks = << >>,
                              !.images = Append(@, blocks)]
  /\ PipelineUnchanged

\* continue_content_generation hands the blocks of the job to the language
\* model
HandBlocks ==
  /\ clustering.pc = "idle" /\ clustering.run = 1
  /\ clustering.images # << >>
  /\ clustering' = [clustering EXCEPT !.pc = "handed",
                                      !.llm = GetBlocksForLlm(clustering.images)]
  /\ PipelineUnchanged

\* the blocks of an image are clustered a second time: every block is taken
\* as one word on the normalized page
Recluster ==
  /\ clustering.pc = "idle" /\ clustering.run = 1
  /\ Len(clustering.images) = 1
  /\ LET blocks == clustering.images[1]
         c == [clustering EXCEPT !.run = 2, !.before = blocks, !.images = << >>]
     IN  clustering' =
           StartMerge(c, << PageSize, PageSize >>, [i \in 1 .. Len(blocks) |-> BlockAsWord(blocks[i])])
  /\ PipelineUnchanged

(* --------------------------- specifications ---------------------------- *)

Next ==
  \E t \in Tasks :
    \/ BackgroundRun(t)
    \/ ProcessNote(t)
    \/ PipelineOcr(t)
    \/ PipelineDetect(t)
    \/ Generate(t)
    \/ ExtractWeak(t)
    \/ ExtractCards(t)
    \/ ReprocessNote(t)
    \/ ReprocessDetect(t)
    \/ ReprocessGenerate(t)
    \/ ReprocessWeak(t)
    \/ \E convert \in BOOLEAN : ConfirmNoteType(t, convert)

\* the pipeline as shipped
Spec == Init /\ [][Next]_vars

\* the pipeline with the confirmation policy switched on
SpecConfirm == InitConfirm /\ [][Next]_vars

\* the pipeline with the confirmation policy switched on, on a database
\* whose stored checkpoint can be damaged
NextStorage == Next \/ DamageCheckpoint

SpecStorage == InitConfirm /\ [][NextStorage]_vars

\* the part of an invocation that runs without a request: the scheduled
\* background task starts, and a coroutine suspended in a provider call is
\* resumed when the call returns or raises (the calls carry a timeout)
Resume(t) ==
  \/ BackgroundRun(t)
  \/ PipelineOcr(t)
  \/ PipelineDetect(t)
  \/ Generate(t)
  \/ ExtractWeak(t)
  \/ ExtractCards(t)
  \/ ReprocessDetect(t)
  \/ ReprocessGenerate(t)
  \/ ReprocessWeak(t)

\* the pipeline as shipped, on an event loop that runs every task that is
\* ready; no request is ever forced to arrive
SpecFair == Spec /\ \A t \in Tasks : WF_vars(Resume(t))

NextCluster ==
  \/ ExtractImage
  \/ MergeWord
  \/ LinesMerged
  \/ MergeLine
  \/ BlocksMerged
  \/ HandBlocks
  \/ Recluster

\* the OCR service at work on the images of a job that was just uploaded
SpecCluster == InitCluster /\ [][NextCluster]_vars

TypeOK ==
  /\ note.status \in Statuses
  /\ note.organize_method \in OrganizeMethods
  /\ userPlan \in UserPlans
  /\ \A t \in Tasks : inv[t].op \in {"none", "background", "process", "reprocess", "confirm"}

(* ------------------------------- claims -------------------------------- *)

\* slot t takes a step
Steps(t) == inv'[t] # inv[t]

\* the HTTP call op is accepted in slot t in this step
Accepted(t, op) == inv[t].pc = "idle" /\ inv'[t].pc # "idle" /\ inv'[t].op = op

\* the HTTP call op is turned away in this step
TurnedAway(op) == last' = Outcome(op, "rejected", None)

\* C1 as stated: organizedContent is set only while status = COMPLETED.
C1_ContentOnlyWhileCompleted ==
  note.organized_content # None => note.status = "completed"

\* C1, amended: organizedContent is written only by a step that sets the
\* status to COMPLETED; no step writes it under another status.
C1_ContentWrittenOnlyWithCompleted ==
  [][note'.organized_content # note.organized_content
       => note'.status = "completed" /\ note'.organized_content # None]_vars

\* a run has stored its result
C1_Witness ==
  note.status = "completed" /\ note.organized_content = "c1" /\ last.result = "none"

\* C2 as stated: once COMPLETED, no step of any invocation changes the status.
C2_CompletedIsFinal ==
  [][note.status = "completed" => note'.status = "completed"]_vars

\* C2, amended: while the status is COMPLETED the only HTTP call that is
\* accepted is reprocess, which sets AI_ORGANIZING; process and confirmType
\* are turned away and leave the job as it is.
C2_CompletedLeftOnlyByReprocess ==
  [][note.status = "completed" =>
       /\ \A t \in Tasks : \A op \in {"process", "reprocess", "confirm"} :
            Accepted(t, op) => op = "reprocess" /\ note'.status = "ai_organizing"
       /\ TurnedAway("process") \/ TurnedAway("confirm") => note' = note /\ inv' = inv
     ]_vars

\* process was turned away on a completed job
C2_Witness ==
  note.status = "completed" /\ last = Outcome("process", "rejected", None)

\* C3: the status becomes FAILED only from OCR_PROCESSING or AI_ORGANIZING and
\* becomes COMPLETED or CONFIRMATION_NEEDED only from AI_ORGANIZING.
C3_StatusPredecessors ==
  [][/\ note'.status = "failed" /\ note.status # "failed"
          => note.status \in {"ocr_processing", "ai_organizing"}
     /\ note'.status \in {"completed", "confirmation_needed"} /\ note.status # note'.status
          => note.status = "ai_organizing"
    ]_vars

\* C4: process is accepted only in UPLOADING or FAILED; in any other status
\* it is turned away, no stage starts and the job is unchanged.
C4_ProcessPrecondition ==
  [][/\ \A t \in Tasks : Accepted(t, "process")
          => note.status \in {"uploading", "failed"} /\ inv'[t].pc = "ocr"
     /\ TurnedAway("process")
          => note.status \notin {"uploading", "failed"} /\ note' = note /\ inv' = inv
    ]_vars

\* process was turned away while a run was in progress
C4_Witness ==
  /\ note.status \in {"ocr_processing", "ai_organizing"}
  /\ last = Outcome("process", "rejected", None)

\* C5: confirmType is accepted only in CONFIRMATION_NEEDED with a checkpoint;
\* otherwise it is turned away, no generation call is made and the job
\* (status, method, checkpoint, content) is unchanged.
C5_ConfirmPrecondition ==
  [][/\ \A t \in Tasks : Accepted(t, "confirm")
          => note.status = "confirmation_needed" /\ note.detection_cache # <<>>
     /\ TurnedAway("confirm")
          => /\ note.status # "confirmation_needed" \/ note.detection_cache = <<>>
             /\ note' = note /\ inv' = inv
    ]_vars

\* confirmType was turned away on a job that still holds a checkpoint
C5_Witness ==
  /\ note.status # "confirmation_needed"
  /\ note.detection_cache # <<>>
  /\ last = Outcome("confirm", "rejected", None)

C8_ConfirmResumesFromCheckpoint ==
  /\ [](\A t \in Tasks : inv[t].op = "confirm" => inv[t].pc \in {"generate", "weak", "cards"})
  /\ [][\A t \in Tasks :
          Accepted(t, "confirm") =>
            /\ inv'[t].pc = "generate"
            /\ SerializeCache(inv'[t].det, CurriculumContext) = note.detection_cache
       ]_vars

\* a confirmType call waits for the generation call
C8_Witness ==
  \E t \in Tasks :
    /\ inv[t].op = "confirm"
    /\ inv[t].pc = "generate"
    /\ inv[t].det.detected_note_type = "error_note"

\* C9: reprocess is accepted exactly when ocrText is non-empty, whatever the
\* checkpoint holds; it starts at the classification calls, never waits for
\* the OCR call, no step of it sets OCR_PROCESSING or changes ocrText, the
\* OCR metadata or the checkpoint; it completes only after the generation
\* call.
C9_ReprocessSkipsOcr ==
  /\ [](\A t \in Tasks : inv[t].op = "reprocess" => inv[t].pc \in {"detect", "generate", "weak"})
  /\ [][/\ \A t \in Tasks :
             Accepted(t, "reprocess") => ~Falsy(note.ocr_text) /\ inv'[t].pc = "detect"
        /\ TurnedAway("reprocess") => Falsy(note.ocr_text) /\ note' = note /\ inv' = inv
        /\ \A t \in Tasks :
             Steps(t) /\ (inv[t].op = "reprocess" \/ inv'[t].op = "reprocess") =>
               /\ note'.ocr_text = note.ocr_text
               /\ note'.ocr_metadata = note.ocr_metadata
               /\ note'.detection_cache = note.detection_cache
               /\ note'.status = "ocr_processing" => note.status = "ocr_processing"
               /\ last'.result = "completed" => inv[t].pc \in {"generate", "weak"}
               /\ inv'[t].pc = "generate" => inv[t].pc = "detect"
       ]_vars

\* a reprocess call has completed on the stored OCR text of a job that holds
\* no checkpoint
C9_Witness ==
  /\ last.op = "reprocess" /\ last.result = "completed"
  /\ note.status = "completed"
  /\ note.ocr_text = "t1"
  /\ note.detection_cache = <<>>

\* C10: a pipeline run whose OCR text is empty or blank returns at once with
\* FAILED and an error message and leaves ocrText alone; only a run with
\* non-blank text goes on to the classification calls.
C10_EmptyOcrFails ==
  [][\A t \in Tasks :
       Steps(t) /\ inv[t].pc = "ocr" =>
         /\ inv'[t].pc # "idle" => inv'[t].pc = "detect" /\ ~(inv'[t].ocr \in {None, "", " "})
         /\ inv'[t].pc = "idle" /\ last'.ocr \in {"", " "} =>
              /\ note'.status = "failed"
              /\ note'.error_message # NoError
              /\ note'.ocr_text = note.ocr_text
              /\ last'.result = "failed"
    ]_vars

\* a run has just failed on blank OCR text and no OCR text is stored
C10_Witness ==
  /\ last.result = "failed"
  /\ last.ocr = " "
  /\ note.status = "failed"
  /\ note.error_message = "E_NoText"
  /\ note.ocr_text = None

C12_ExtractionIsolated ==
  [][\A t \in Tasks :
       Steps(t) /\ inv[t].pc \in {"weak", "cards"} =>
         /\ note' = note
         /\ inv'[t].pc = "idle" => last'.result = "completed"
    ]_vars

\* a run has returned its normal response although its last extraction call
\* failed, and the job is COMPLETED with its content
C12_Witness ==
  /\ last.extraction = "failed"
  /\ last.result = "completed"
  /\ note.status = "completed"
  /\ note.organized_content # None

\* C13: every invocation that brings the job to COMPLETED goes on to the
\* concept-card extraction call (after the weak-concept call, if that one is
\* made), and the card call is made only by an invocation that has stored
\* COMPLETED.
C13_CardsAlwaysExtracted ==
  [][\A t \in Tasks :
       /\ Steps(t) /\ inv[t].pc = "generate" /\ note'.status = "completed"
            => inv'[t].pc \in {"weak", "cards"}
       /\ Steps(t) /\ inv[t].pc = "weak" => inv'[t].pc = "cards"
       /\ Steps(t) /\ inv'[t].pc = "cards" /\ inv[t].pc # "weak"
            => inv[t].pc = "generate" /\ note'.status = "completed"
    ]_vars

\* the invocations that are inside a stage (waiting for its provider call)
InStage == {t \in Tasks : inv[t].pc \in {"ocr", "detect", "generate", "weak", "cards"}}

\* C14: no two stages of the job execute at the same time: at most one
\* invocation is inside a stage.
C14_StagesSequential == Cardinality(InStage) <= 1

\* C15: nothing but the status decides whether a run starts: a process call
\* on a job in UPLOADING or FAILED can always be accepted, whatever the other
\* invocations on the job are doing, and the scheduled background run can
\* always start.
C15_NoLockOnProcess ==
  /\ \A t \in Tasks \ {0} :
       inv[t].pc = "idle" /\ note.status \in {"uploading", "failed"}
         => ENABLED (ProcessNote(t) /\ inv'[t].pc = "ocr")
  /\ inv[0].pc = "scheduled" => ENABLED BackgroundRun(0)

\* the background run and an explicit process call are in progress together
\* and each has stored its OCR text, its statuses and its organized content
C15_Witness ==
  /\ inv[0].op = "background" /\ inv[0].pc = "cards"
  /\ \E t \in Tasks \ {0} : inv[t].op = "process" /\ inv[t].pc = "cards"

\* C16: whenever the classification call of a run hands back a non-empty
\* completion that is not a JSON object, the run goes on to the generation
\* call with subject other, note type general, unit "" and the raw text as
\* structure, and the job does not become FAILED.
C16_ParseFailureFallback ==
  [][\A t \in Tasks :
       Steps(t) /\ inv[t].pc = "detect" /\ last'.classify \in {"text", "scalar"} =>
         /\ inv'[t].pc = "generate"
         /\ inv'[t].det.detected_subject = "other"
         /\ inv'[t].det.detected_note_type = "general"
         /\ inv'[t].det.detected_unit = ""
         /\ inv'[t].det.structure \in {"raw", "null"}
         /\ last'.result = "none"
         /\ note'.status = "failed" => note.status = "failed"
    ]_vars

\* C17: the detection an invocation takes to the generation call has a
\* subject among the seven subjects and a note type among the three types.
C17_WellTypedDetection ==
  \A t \in Tasks :
    inv[t].pc = "generate" =>
      /\ inv[t].det.detected_subject \in Subjects
      /\ inv[t].det.detected_note_type \in NoteTypes

\* the texts of the generation completions that were cut off by the token
\* limit
TruncatedTexts ==
  {Strip(r.content) : r \in {g \in GenResponses : g.ok /\ g.finish = "length"}} \ {""}

\* C18: a text cut off by the token limit is never stored as
\* organizedContent.
C18_TruncatedNeverPersisted == note.organized_content \notin TruncatedTexts

\* C19: an invocation whose generation call hands back no text ends at once
\* with FAILED and an error message, writes no organizedContent and makes no
\* extraction call.
C19_EmptyGenerationFails ==
  [][\A t \in Tasks :
       Steps(t) /\ inv[t].pc = "generate" /\ last'.generate = "empty" =>
         /\ note'.status = "failed"
         /\ note'.error_message # NoError
         /\ note'.organized_content = note.organized_content
         /\ inv'[t].pc = "idle"
         /\ last'.result = "failed"
    ]_vars

\* a confirmType call has just failed on an empty completion
C19_Witness ==
  /\ last.generate = "empty"
  /\ last.op = "confirm"
  /\ last.result = "failed"
  /\ note.status = "failed"

\* C20: the method chosen by the user decides the strategy: the prompt of a
\* generation request is the one its method and subject select whatever
\* note type was detected.
C20_MethodPrecedence ==
  \A t \in Tasks :
    inv[t].pc = "generate" =>
      \A nt \in NoteTypes :
        Strategy(inv[t].det.detected_subject, nt, inv[t].method, PromptStore)
          = inv[t].strategy

\* the run of process_note_pipeline in slot t
PipelineRun(t) == inv[t].op \in {"background", "process"}

\* the run in slot t has stored a non-empty result with COMPLETED
RunCompleted(t) ==
  /\ PipelineRun(t) /\ inv[t].pc \in {"weak", "cards"}
  /\ last.generate \in {"text", "truncated"}
  /\ note.status = "completed" /\ ~IsBlank(note.organized_content)

\* a run has just ended in the except branch on a provider outcome outside
\* the premise: the OCR gave no text or raised, the classification call was
\* not reached or gave no valid object, or the generation gave no text
RunStopped(t) ==
  /\ inv[t].pc = "idle"
  /\ last.op \in {"background", "process"} /\ last.result = "failed"
  /\ \/ last.generate \in {"error", "empty"}
     \/ last.generate = "none" /\ last.classify # "json"

C22_WordMergeRule ==
  [][clustering.pc = "words" /\ clustering.sorted_words # << >> =>
       LET word == Head(clustering.sorted_words)
           group == clustering.current_line
           distance == Abs(word.cy - group[Len(group)].cy)
           \* distance < 0.8 * (sum of heights / Len(group)), in tenths
           below == 10 * distance * Len(group) < 8 * SumOfHeights(group)
       IN  /\ ~LessCyX(word, group[Len(group)])
           /\ \A i \in 1 .. Len(clustering.sorted_words) - 1 :
                ~LessCyX(clustering.sorted_words[i + 1], clustering.sorted_words[i])
           /\ below <=> clustering'.current_line = Append(group, word)
           /\ below => clustering'.lines = clustering.lines
           /\ ~below => /\ clustering'.current_line = << word >>
                        /\ Len(clustering'.lines) = Len(clustering.lines) + 1
     ]_vars

\* a word of height 10 closed a line of one word of height 10 at a distance
\* of exactly 8
C22_Witness ==
  /\ clustering.pc = "words" /\ clustering.run = 1
  /\ Len(clustering.lines) = 1 /\ Len(clustering.current_line) = 1
  /\ clustering.lines[1].word_count = 1 /\ clustering.lines[1].h = 10
  /\ clustering.current_line[1].h = 10
  /\ clustering.current_line[1].cy - clustering.lines[1].cy = 8

\* C23: in the walk over the lines sorted by y, the line joins the current
\* block if and only if its gap to the last line of the block is strictly
\* below 2.0 times the mean height of the lines of the block and its x differs
\* from the x of that line by less than 100; otherwise the block is closed and
\* the line starts a new block.
C23_LineMergeRule ==
  [][clustering.pc = "lines" /\ clustering.sorted_lines # << >> =>
       LET line == Head(clustering.sorted_lines)
           block == clustering.current_block
           prev == block[Len(block)]
           \* gap < 2.0 * (sum of heights / Len(block))
           near == (line.y - (prev.y + prev.h)) * Len(block) < 2 * SumOfHeights(block)
           aligned == Abs(line.x - prev.x) < 100
       IN  /\ prev.y <= line.y
           /\ \A i \in 1 .. Len(clustering.sorted_lines) - 1 :
                clustering.sorted_lines[i].y <= clustering.sorted_lines[i + 1].y
           /\ near /\ aligned <=> clustering'.current_block = Append(block, line)
           /\ near /\ aligned => clustering'.blocks = clustering.blocks
           /\ ~(near /\ aligned) =>
                /\ clustering'.current_block = << line >>
                /\ Len(clustering'.blocks) = Len(clustering.blocks) + 1
                /\ clustering'.blocks[Len(clustering.blocks) + 1].line_count = Len(block)
     ]_vars

\* on an image of the size of the page, a line directly below a block of one
\* line started a new block because its x is exactly 100 to the right
C23_Witness ==
  /\ clustering.pc = "lines" /\ clustering.run = 1
  /\ clustering.image_size = << PageSize, PageSize >>
  /\ Len(clustering.blocks) = 1 /\ Len(clustering.current_block) = 1
  /\ clustering.blocks[1].line_count = 1
  /\ clustering.current_block[1].x - clustering.blocks[1].bbox[1] = 100
  /\ clustering.current_block[1].y
       - (clustering.blocks[1].bbox[2] + clustering.blocks[1].bbox[4])
       < 2 * clustering.blocks[1].bbox[4]

\* the blocks the OCR service has built so far
BlocksBuilt ==
  { clustering.blocks[i] : i \in 1 .. Len(clustering.blocks) }
    \cup UNION { { clustering.images[k][i] : i \in 1 .. Len(clustering.images[k]) } :
                 k \in 1 .. Len(clustering.images) }

\* C24 as stated: for a block whose pixel bounding box lies inside the image,
\* each of the four normalized components lies in [0, 1000).
C24_NormalizedBelowPageSize ==
  \A b \in BlocksBuilt : \A k \in 1 .. 4 : b.bbox[k] >= 0 /\ b.bbox[k] < 1000

\* a step of the OCR service that builds a block from current_block
BuildsBlock ==
  /\ clustering.pc = "lines"
  /\ clustering'.pc = "idle" \/ Len(clustering'.blocks) = Len(clustering.blocks) + 1

\* C24, amended: for a block whose pixel bounding box lies inside the image,
\* each normalized component is floor(value * 1000 / imageDimension) and lies
\* in [0, 1000]; it is 1000 exactly when the pixel value equals the image
\* dimension, and x + w and y + h of the normalized box do not exceed 1000.
C24_NormalizedWithinPage ==
  [][BuildsBlock =>
       LET lines == clustering.current_block
           idx == 1 .. Len(lines)
           left == Min({ lines[i].x : i \in idx })
           top == Min({ lines[i].y : i \in idx })
           right == Max({ lines[i].x + lines[i].w : i \in idx })
           bottom == Max({ lines[i].y + lines[i].h : i \in idx })
           pixels == << left, top, right - left, bottom - top >>
           size == << clustering.image_size[1], clustering.image_size[2],
                      clustering.image_size[1], clustering.image_size[2] >>
           built == IF clustering'.pc = "idle"
                    THEN clustering'.images[Len(clustering'.images)]
                    ELSE clustering'.blocks
           bbox == built[Len(built)].bbox
       IN  /\ left >= 0 /\ top >= 0 /\ right <= size[1] /\ bottom <= size[2]
           /\ \A k \in 1 .. 4 :
                /\ bbox[k] * size[k] <= pixels[k] * 1000
                /\ pixels[k] * 1000 < (bbox[k] + 1) * size[k]
                /\ bbox[k] >= 0 /\ bbox[k] <= 1000
                /\ bbox[k] = 1000 <=> pixels[k] = size[k]
           /\ bbox[1] + bbox[3] <= 1000 /\ bbox[2] + bbox[4] <= 1000
     ]_vars

\* a block of an image of width 200 spans the whole width: its normalized
\* width is 1000
C24_Witness ==
  /\ clustering.run = 1 /\ clustering.pc = "idle"
  /\ clustering.image_size = << 200, 60 >>
  /\ Len(clustering.images) = 1 /\ Len(clustering.images[1]) = 1
  /\ clustering.images[1][1].bbox[1] = 0 /\ clustering.images[1][1].bbox[3] = 1000

\* the texts and bounding boxes of a list of blocks
TextsAndBoxes(blocks) ==
  { << blocks[i].text, blocks[i].bbox >> : i \in 1 .. Len(blocks) }

\* C25: when the blocks of an image are taken as words, one word per block
\* spanning its bounding box, and clustered again, the result is the same set
\* of blocks: the same texts with the same bounding boxes.
C25_ReclusteringIsIdentity ==
  clustering.run = 2 /\ clustering.pc = "idle" =>
    TextsAndBoxes(clustering.images[1]) = TextsAndBoxes(clustering.before)

\* C26: the id of a block is "b{n}", n being the 0-based order in which the
\* blocks are built, and the blocks handed to the language model, those of
\* all images of the job one after the other, carry pairwise distinct ids.
C26_DistinctBlockIds ==
  /\ \A k \in 1 .. Len(clustering.images) :
       \A i \in 1 .. Len(clustering.images[k]) :
         clustering.images[k][i].id = << "b", i - 1 >>
  /\ clustering.pc = "handed" =>
       \A i, j \in 1 .. Len(clustering.llm) :
         i # j => clustering.llm[i].id # clustering.llm[j].id

\* a step of the OCR service that builds a line from current_line
BuildsLine ==
  /\ clustering.pc = "words"
  /\ clustering'.pc = "lines" \/ Len(clustering'.lines) = Len(clustering.lines) + 1

\* C27: a line built from a non-empty group of words has w >= 0 and h >= 0,
\* its bounding box is the smallest rectangle that encloses the bounding
\* boxes of its words, and its text is the texts of the words in ascending x
\* order with single spaces between them.
C27_LineFromWords ==
  [][BuildsLine =>
       LET group == clustering.current_line
           idx == 1 .. Len(group)
           line == clustering'.lines[Len(clustering'.lines)]
       IN  /\ group # << >>
           /\ line.w >= 0 /\ line.h >= 0
           /\ \A i \in idx :
                /\ line.x <= group[i].x /\ group[i].x + group[i].w <= line.x + line.w
                /\ line.y <= group[i].y /\ group[i].y + group[i].h <= line.y + line.h
           /\ \E i \in idx : group[i].x = line.x
           /\ \E i \in idx : group[i].y = line.y
           /\ \E i \in idx : group[i].x + group[i].w = line.x + line.w
           /\ \E i \in idx : group[i].y + group[i].h = line.y + line.h
           /\ \E p \in Permutations(idx) :
                /\ \A i \in idx : i < Len(group) => group[p[i]].x <= group[p[i + 1]].x
                /\ line.text = Join([i \in idx |-> group[p[i]].text], " ")
     ]_vars

\* a line of two words whose second word, in the order of the walk, lies to
\* the left of the first: the text starts with the second word
C27_Witness ==
  /\ clustering.run = 1 /\ clustering.pc = "lines"
  /\ Len(clustering.words) = 2
  /\ clustering.words[1].x = 100 /\ clustering.words[2].x = 0
  /\ clustering.words[1].cy < clustering.words[2].cy
  /\ \E i \in 1 .. Len(clustering.lines) :
       /\ clustering.lines[i].text = << "b", " ", "a" >>
       /\ clustering.lines[i].x = 0 /\ clustering.lines[i].w = 200

\* the characters of a text
Characters(text) == { text[i] : i \in 1 .. Len(text) }

\* the entries (words or lines) whose text lies inside the text of the group
\* (line or block): the texts of the words of a job share no character
MembersOf(group, entries) ==
  { i \in 1 .. Len(entries) : entries[i].text[1] \in Characters(group.text) }

\* C28: clustering neither drops nor duplicates: every word lies in exactly
\* one line and the word counts of the lines add up to the number of words;
\* every line lies in exactly one block and the line counts of the blocks add
\* up to the number of lines; without words there are no lines and no blocks.
C28_NothingDroppedOrDuplicated ==
  /\ [](clustering.pc = "lines" =>
         LET words == clustering.words
             lines == clustering.lines
         IN  /\ SumOf([i \in 1 .. Len(lines) |-> lines[i].word_count]) = Len(words)
             /\ \A i \in 1 .. Len(lines) :
                  lines[i].word_count = Cardinality(MembersOf(lines[i], words))
             /\ \A w \in 1 .. Len(words) :
                  Cardinality({ i \in 1 .. Len(lines) : w \in MembersOf(lines[i], words) }) = 1)
  /\ [][clustering.pc = "lines" /\ clustering'.pc = "idle" =>
         LET lines == clustering.lines
             blocks == clustering'.images[Len(clustering'.images)]
         IN  /\ Len(clustering'.images) = Len(clustering.images) + 1
             /\ SumOf([i \in 1 .. Len(blocks) |-> blocks[i].line_count]) = Len(lines)
             /\ \A i \in 1 .. Len(blocks) :
                  blocks[i].line_count = Cardinality(MembersOf(blocks[i], lines))
             /\ \A l \in 1 .. Len(lines) :
                  Cardinality({ i \in 1 .. Len(blocks) : l \in MembersOf(blocks[i], lines) }) = 1
       ]_vars
  /\ [][clustering.pc = "idle" /\ clustering'.pc = "idle" =>
         /\ clustering'.used = clustering.used
         /\ clustering'.lines = << >> /\ clustering'.blocks = << >>
         /\ clustering'.images = clustering.images
       ]_vars

\* three words were merged into two lines and the two lines into one block
C28_Witness ==
  /\ clustering.run = 1 /\ clustering.pc = "idle" /\ clustering.used = 3
  /\ Len(clustering.images) = 1 /\ Len(clustering.images[1]) = 1
  /\ clustering.images[1][1].line_count = 2
  /\ Len(clustering.images[1][1].text) = 5

\* C29: as shipped, no run sets CONFIRMATION_NEEDED or writes a checkpoint,
\* so the status is never CONFIRMATION_NEEDED, and every confirmType call is
\* turned away by its precondition check and changes nothing.
C29_ConfirmationUnreachable ==
  /\ [](note.status # "confirmation_needed" /\ note.detection_cache = << >>)
  /\ [][/\ \A t \in Tasks : inv'[t].op # "confirm" /\ ~Accepted(t, "confirm")
        /\ last'.op = "confirm" =>
             TurnedAway("confirm") /\ note' = note /\ inv' = inv
        /\ last'.result # "paused"
       ]_vars

\* a run classified an error note under another method and went on to the
\* generation; a confirmType call made at that point was turned away
C29_Witness ==
  /\ last = Outcome("confirm", "rejected", None)
  /\ note.status = "ai_organizing"
  /\ note.detected_note_type = "error_note" /\ note.organize_method = "basic_summary"
  /\ \E t \in Tasks : inv[t].pc = "generate" /\ inv[t].op \in {"background", "process"}

\* C30: a refinement completion that is empty or blank does not fail the
\* run: the classification call is made, the run fails in that step only if
\* the classification raises, otherwise it goes on to the generation with the
\* OCR text as refined text, and from there the job can be completed.
C30_BlankRefinementFallsBack ==
  /\ [][last'.refine = "blank" =>
          /\ last'.classify # "none"
          /\ last'.classify \in {"json", "text"} => last'.result = "none"
          /\ last'.result = "none" =>
               \E t \in Tasks :
                 /\ inv[t].pc = "detect" /\ inv'[t].pc = "generate"
                 /\ inv'[t].det.refined_text = inv[t].ocr /\ ~IsBlank(inv[t].ocr)
       ]_vars
  /\ [](\A t \in Tasks :
          inv[t].pc = "generate" /\ last.refine = "blank" =>
            ENABLED ((Generate(t) \/ ReprocessGenerate(t)) /\ note'.status = "completed"))

\* a run whose refinement came back blank waits for the generation with the
\* OCR text as refined text
C30_Witness ==
  /\ last.refine = "blank" /\ last.classify = "json" /\ last.result = "none"
  /\ \E t \in Tasks :
       /\ inv[t].op = "process" /\ inv[t].pc = "generate"
       /\ inv[t].det.refined_text = "t1" /\ inv[t].ocr = "t1"
       /\ note.ocr_text = "t1" /\ note.status = "ai_organizing"

====
